---------------------------- MODULE Spec2Model ----------------------------
(***************************************************************************)
(* Model of the Bac7 enrichment analysis: the enrichment library           *)
(* (src/src/py/enrichment.py), the table loader (src/src/py/data.py), the  *)
(* per-cell driver (src/paper/figure_1b.py) and the pairwise conditional   *)
(* scan (src/paper/suppl_table_5.py).                                      *)
(*                                                                         *)
(* Numbers.  The program computes with IEEE doubles.  The model computes   *)
(* with exact rationals <<num, den>> in lowest terms with den > 0, plus    *)
(* the three IEEE specials the code can produce: NaN = <<0,0>>,            *)
(* +inf = <<1,0>>, -inf = <<-1,0>>.  Rounding error is therefore not part  *)
(* of the model: equalities below are equalities of real numbers.          *)
(***************************************************************************)
EXTENDS Integers, Sequences, FiniteSets, TLC

(***************************************************************************)
(* Bounds of the model.                                                    *)
(***************************************************************************)
MaxRows == 5          \* longest ranked column given to the curve functions
MaxNullRows == 3      \* longest ranked column given to the permutation null
MaxPerm == 2          \* largest n_perm given to the permutation null
FdrRows == 2          \* rows (positions) of the p-value matrix given to fdr_correction
FdrCols == 2          \* columns (acids) of the p-value matrix given to fdr_correction
FilterRows == 3       \* peptides of the table given to the stop-codon filter
FilterPos == 6        \* positions of the table given to the stop-codon filter
MaxStops == 2         \* stop codons in the table given to the stop-codon filter
DriverRows == 3       \* peptides of the table given to figure_1b.py
DriverPos == 2        \* positions of the table given to figure_1b.py
DriverPerm == 1       \* n_perm of figure_1b.py (10 in the script)
ScanRows == 2         \* peptides of the table given to suppl_table_5.py
LoadRows == 2         \* peptides of the file given to data.load

Alphabet == {"A", "B", "*"}

(***************************************************************************)
(* Exact rational arithmetic.                                              *)
(***************************************************************************)
Abs(i) == IF i < 0 THEN -i ELSE i

RECURSIVE Gcd(_, _)
Gcd(a, b) == IF b = 0 THEN a ELSE Gcd(b, a % b)

NaN == <<0, 0>>
PosInf == <<1, 0>>
NegInf == <<-1, 0>>

IsFinite(r) == r[2] # 0

\* n / d as a float: a division by zero gives nan or a signed infinity.
Frac(n, d) ==
    IF d = 0 THEN (IF n = 0 THEN NaN ELSE IF n > 0 THEN PosInf ELSE NegInf)
    ELSE LET g == Gcd(Abs(n), Abs(d))
             s == IF d < 0 THEN -1 ELSE 1
         IN  <<(s * n) \div g, (s * d) \div g>>

One == Frac(1, 1)

RAdd(r, s) ==
    IF IsFinite(r) /\ IsFinite(s)
      THEN Frac(r[1] * s[2] + s[1] * r[2], r[2] * s[2])
    ELSE IF r = NaN \/ s = NaN THEN NaN
    ELSE IF IsFinite(r) THEN s
    ELSE IF IsFinite(s) THEN r
    ELSE IF r = s THEN r ELSE NaN

RNeg(r) == <<-r[1], r[2]>>

RSub(r, s) == RAdd(r, RNeg(s))

Zero == <<0, 1>>

RMul(r, s) ==
    IF IsFinite(r) /\ IsFinite(s) THEN Frac(r[1] * s[1], r[2] * s[2])
    ELSE IF r = NaN \/ s = NaN \/ r = Zero \/ s = Zero THEN NaN
    ELSE IF (r[1] > 0) = (s[1] > 0) THEN PosInf ELSE NegInf

\* r / k for an integer k > 0
RDivInt(r, k) == IF IsFinite(r) THEN Frac(r[1], r[2] * k) ELSE r

\* np.abs
RAbs(r) == <<Abs(r[1]), r[2]>>

\* r <= s as IEEE compares: false whenever a nan is involved.
RLeq(r, s) ==
    IF r = NaN \/ s = NaN THEN FALSE
    ELSE IF IsFinite(r) /\ IsFinite(s) THEN r[1] * s[2] <= s[1] * r[2]
    ELSE IF r = s THEN TRUE
    ELSE r = NegInf \/ s = PosInf

RLt(r, s) == RLeq(r, s) /\ r # s

(***************************************************************************)
(* numpy helpers used by enrichment.py.                                    *)
(***************************************************************************)
Range(s) == {s[i] : i \in 1..Len(s)}

\* np.cumsum / Series.cumsum
RECURSIVE cumsum(_)
cumsum(arr) ==
    IF Len(arr) = 0 THEN <<>>
    ELSE LET head == cumsum(SubSeq(arr, 1, Len(arr) - 1))
             prev == IF Len(head) = 0 THEN Zero ELSE head[Len(head)]
         IN  Append(head, RAdd(prev, arr[Len(arr)]))

RECURSIVE RSum(_)
RSum(arr) == IF Len(arr) = 0 THEN Zero ELSE RAdd(arr[1], RSum(Tail(arr)))

\* np.mean: the sum over the size; nan (with a warning) for an empty array.
np_mean(arr) == IF Len(arr) = 0 THEN NaN ELSE RDivInt(RSum(arr), Len(arr))

\* np.argmax: the first index holding the maximum (1-based here).
argmax(arr) ==
    CHOOSE i \in 1..Len(arr) :
        /\ \A j \in 1..Len(arr) : RLeq(arr[j], arr[i])
        /\ \A j \in 1..(i - 1) : RLt(arr[j], arr[i])

\* Series.value_counts()[acid]
value_count(df, acid) == Cardinality({i \in 1..Len(df) : df[i] = acid})

(***************************************************************************)
(* enrichment.py                                                           *)
(***************************************************************************)
\* Lines 75-82 of enrichment_curves (and 122-129 of enrichment_scores_null):
\* the column with every matching row set to 1/m and every other row to
\* -1/(n-m).  When m = n the value -1/(n-m) is -inf and is assigned to no row.
\* Mutant: the non-matching rows normalised by n instead of n - m.
increments_mut(df, acid) ==
    LET n == Len(df)
        m == value_count(df, acid)
    IN  [i \in 1..n |-> IF df[i] = acid THEN Frac(1, m) ELSE Frac(-1, n)]

increments(df, acid) ==
    LET n == Len(df)
        m == value_count(df, acid)
    IN  [i \in 1..n |-> IF df[i] = acid THEN Frac(1, m) ELSE Frac(-1, n - m)]

\* enrichment_curves: [] when the acid does not occur in the column.
enrichment_curves(df, acid) ==
    IF value_count(df, acid) = 0 THEN <<>>
    ELSE cumsum(increments(df, acid))

\* Mutant: the largest entry instead of the entry of largest absolute value.
enrichment_score_mut(curve) == curve[argmax(curve)]

\* enrichment_score: defined on a non-empty curve; on an empty one argmax
\* raises ValueError (see ScoreRaises).
enrichment_score(curve) == curve[argmax([i \in 1..Len(curve) |-> RAbs(curve[i])])]

ScoreRaises(curve) == Len(curve) = 0

\* One np.random.permutation(curve): any rearrangement of the array.
PermsOf == [n \in 0..(MaxRows + 1) |-> Permutations(1..n)]

permutation(arr) == {[i \in 1..Len(arr) |-> arr[p[i]]] : p \in PermsOf[Len(arr)]}

\* The reduction of one permuted curve inside enrichment_scores_null.
null_reduce(tmp_, mode) ==
    IF mode = "auc" THEN np_mean(tmp_) ELSE enrichment_score(tmp_)

\* Mutant: the observed value compared without its absolute value.
twosided_pvalue_mut(obs, null) ==
    IF Len(null) = 0 THEN One
    ELSE LET n_perm == Len(null)
             numerator == Cardinality({i \in 1..Len(null) :
                                          RLeq(obs, RAbs(null[i]))})
         IN  Frac(numerator, n_perm)

\* twosided_pvalue
twosided_pvalue(obs, null) ==
    IF Len(null) = 0 THEN One
    ELSE LET n_perm == Len(null)
             numerator == Cardinality({i \in 1..Len(null) :
                                          RLeq(RAbs(obs), RAbs(null[i]))})
         IN  Frac(numerator, n_perm)


\* sorted(range(size), key=...): a stable insertion of index k into the
\* sorted list idx, after every index whose key is <= the key of k.
RECURSIVE insert_sorted(_, _, _)
insert_sorted(idx, k, key) ==
    IF Len(idx) = 0 THEN <<k>>
    ELSE IF RLeq(key[idx[Len(idx)]], key[k]) THEN Append(idx, k)
    ELSE Append(insert_sorted(SubSeq(idx, 1, Len(idx) - 1), k, key), idx[Len(idx)])

RECURSIVE sorted_range(_, _)
sorted_range(size, key) ==
    IF size = 0 THEN <<>>
    ELSE insert_sorted(sorted_range(size - 1, key), size, key)

\* Mutant: the step-up procedure, every p-value up to the largest rank whose
\* p-value is within its threshold is significant.
benjamini_hochberg_mut(pvals_arr, alpha) ==
    LET size == Len(pvals_arr)
        sort_idx == sorted_range(size, pvals_arr)
        rank(k) == CHOOSE r \in 1..size : sort_idx[r] = k
        qvals_arr == [k \in 1..size |-> Frac(alpha[1] * rank(k), alpha[2] * size)]
        passing == {r \in 1..size : RLeq(pvals_arr[sort_idx[r]], qvals_arr[sort_idx[r]])}
    IN  [is_sig |-> [k \in 1..size |-> \E r \in passing : rank(k) <= r],
         qvals |-> qvals_arr]

\* benjamini_hochberg: qvals_arr[sort_idx] = arange(1, size + 1) / size, times
\* alpha; is_sig = pvals_arr <= qvals_arr.
benjamini_hochberg(pvals_arr, alpha) ==
    LET size == Len(pvals_arr)
        sort_idx == sorted_range(size, pvals_arr)
        rank(k) == CHOOSE r \in 1..size : sort_idx[r] = k
        qvals_arr == [k \in 1..size |-> Frac(alpha[1] * rank(k), alpha[2] * size)]
    IN  [is_sig |-> [k \in 1..size |-> RLeq(pvals_arr[k], qvals_arr[k])],
         qvals |-> qvals_arr]

\* pvalues.reshape(-1): row-major
reshape_flat(matrix, n_rows, n_cols) ==
    [k \in 1..(n_rows * n_cols) |->
        matrix[((k - 1) \div n_cols) + 1][((k - 1) % n_cols) + 1]]

\* significant.reshape([n_rows, n_cols])
reshape_matrix(flat, n_rows, n_cols) ==
    [r \in 1..n_rows |-> [c \in 1..n_cols |-> flat[(r - 1) * n_cols + c]]]

\* fdr_correction
fdr_correction(matrix, alpha) ==
    LET n_rows == Len(matrix)
        n_cols == Len(matrix[1])
        flat_pvals == reshape_flat(matrix, n_rows, n_cols)
        bh == benjamini_hochberg(flat_pvals, alpha)
    IN  reshape_matrix(bh.is_sig, n_rows, n_cols)

(***************************************************************************)
(* Strings are sequences of characters.                                    *)
(***************************************************************************)
DigitChars == <<"0", "1", "2", "3", "4", "5", "6", "7", "8", "9">>

\* str(k) of an integer k >= 0, as an f-string writes it.
RECURSIVE str(_)
str(k) == IF k < 10 THEN <<DigitChars[k + 1]>>
          ELSE Append(str(k \div 10), DigitChars[(k % 10) + 1])

\* int(s) of a string of decimal digits (leading zeros allowed).
RECURSIVE int(_)
int(s) ==
    IF Len(s) = 0 THEN 0
    ELSE 10 * int(SubSeq(s, 1, Len(s) - 1))
           + ((CHOOSE d \in 1..10 : DigitChars[d] = s[Len(s)]) - 1)

\* s.strip(chars): leading and trailing characters of the set removed.
RECURSIVE lstrip(_, _)
lstrip(s, chars) ==
    IF Len(s) > 0 /\ s[1] \in chars THEN lstrip(Tail(s), chars) ELSE s

RECURSIVE rstrip(_, _)
rstrip(s, chars) ==
    IF Len(s) > 0 /\ s[Len(s)] \in chars
      THEN rstrip(SubSeq(s, 1, Len(s) - 1), chars) ELSE s

strip(s, chars) == rstrip(lstrip(s, chars), chars)

(***************************************************************************)
(* data.py                                                                 *)
(***************************************************************************)
\* load, lines 25-28: the label of the column made for 0-based offset p.
pos_label(p) ==
    IF p < 10 THEN <<"P", "o", "s", "0">> \o str(p + 1)
    ELSE <<"P", "o", "s">> \o str(p + 1)

\* Python's order of the one-character strings of the alphabet.
SortedAlphabet == <<"*", "A", "B">>

\* A data frame is [index |-> row labels, columns |-> column labels,
\* values |-> rows of cells]; a Series is [index |-> labels, values |-> cells].
\* aa_from_df: sorted(list(set(df.values.flatten())))
aa_from_df(frame) ==
    LET present(a) == \E r \in 1..Len(frame.values) :
                          \E c \in 1..Len(frame.columns) : frame.values[r][c] = a
    IN  SelectSeq(SortedAlphabet, present)

\* df[column]
get_column(frame, column) ==
    LET c == CHOOSE j \in 1..Len(frame.columns) : frame.columns[j] = column
    IN  [index |-> frame.index,
         values |-> [r \in 1..Len(frame.index) |-> frame.values[r][c]]]

\* Python's order of the characters that occur in labels and cells.
CharOrder == <<"*", "0", "1", "2", "3", "4", "5", "6", "7", "8", "9",
               "A", "B", "P", "o", "s">>

ord(ch) == CHOOSE k \in 1..Len(CharOrder) : CharOrder[k] = ch

\* s < t for two strings, as Python compares them.
RECURSIVE str_less(_, _)
str_less(s, t) ==
    IF Len(t) = 0 THEN FALSE
    ELSE IF Len(s) = 0 THEN TRUE
    ELSE IF s[1] # t[1] THEN ord(s[1]) < ord(t[1])
    ELSE str_less(Tail(s), Tail(t))

\* sorted(d) for a dict d whose keys are the strings of S.
RECURSIVE sorted_keys(_)
sorted_keys(S) ==
    IF S = {} THEN <<>>
    ELSE LET least == CHOOSE k \in S : \A o \in S \ {k} : str_less(k, o)
         IN  <<least>> \o sorted_keys(S \ {least})

\* sorted(d) for a dict d whose keys are the one-character strings of S.
sorted_acids(S) == LET in_S(a) == a \in S IN SelectSeq(SortedAlphabet, in_S)

\* df.loc[df[column] == acid]
filter_rows(frame, column, acid) ==
    LET c == CHOOSE j \in 1..Len(frame.columns) : frame.columns[j] = column
        match(r) == frame.values[r][c] = acid
        kept == SelectSeq([r \in 1..Len(frame.index) |-> r], match)
    IN  [index |-> [i \in 1..Len(kept) |-> frame.index[kept[i]]],
         columns |-> frame.columns,
         values |-> [i \in 1..Len(kept) |-> frame.values[kept[i]]]]

\* Mutant: the conditioned column is kept in the frame.
drop_column_mut(frame, column) == frame

\* df.drop(column, axis=1)
drop_column(frame, column) ==
    LET other(j) == frame.columns[j] # column
        kept == SelectSeq([j \in 1..Len(frame.columns) |-> j], other)
    IN  [index |-> frame.index,
         columns |-> [i \in 1..Len(kept) |-> frame.columns[kept[i]]],
         values |-> [r \in 1..Len(frame.index) |->
                        [i \in 1..Len(kept) |-> frame.values[r][kept[i]]]]]

(***************************************************************************)
(* figure_1b.py, lines 38-40: the stop codons of the table, row-major,     *)
(* as 1-based (row, column) numbers.                                       *)
(***************************************************************************)
stop_codons(frame) ==
    LET n_cols == Len(frame.columns)
        cells == [k \in 1..(Len(frame.index) * n_cols) |->
                     <<((k - 1) \div n_cols) + 1, ((k - 1) % n_cols) + 1>>]
        is_stop(rc) == frame.values[rc[1]][rc[2]] = "*"
    IN  SelectSeq(cells, is_stop)

(***************************************************************************)
(* enrichment.py: remove_peptides_with_stopcodon                           *)
(***************************************************************************)
\* Mutant: a stop codon at the queried position removes the row too.
row_remove_mut(column, sc_index, sc_col) ==
    LET col_value == int(strip(column, {"P", "o", "s"}))
        n == IF Len(sc_index) < Len(sc_col) THEN Len(sc_index) ELSE Len(sc_col)
        keep(k) == col_value >= sc_col[k]
        picked == SelectSeq([k \in 1..n |-> k], keep)
    IN  [i \in 1..Len(picked) |-> sc_index[picked[i]]]

\* Lines 29-30: the labels of the rows with a stop codon before the column.
row_remove(column, sc_index, sc_col) ==
    LET col_value == int(strip(column, {"P", "o", "s"}))
        n == IF Len(sc_index) < Len(sc_col) THEN Len(sc_index) ELSE Len(sc_col)
        keep(k) == col_value > sc_col[k]
        picked == SelectSeq([k \in 1..n |-> k], keep)
    IN  [i \in 1..Len(picked) |-> sc_index[picked[i]]]

\* Series.drop(index=labels) raises KeyError for a label not in the index.
DropRaises(series, labels) ==
    \E i \in 1..Len(labels) : labels[i] \notin Range(series.index)

\* Series.drop(index=labels): the rows left, in their order.
drop(series, labels) ==
    LET stays(k) == series.index[k] \notin Range(labels)
        kept == SelectSeq([k \in 1..Len(series.index) |-> k], stays)
    IN  [index |-> [i \in 1..Len(kept) |-> series.index[kept[i]]],
         values |-> [i \in 1..Len(kept) |-> series.values[kept[i]]]]

\* remove_peptides_with_stopcodon, when the drop does not raise.  The drop is
\* in place on the Series taken out of the frame; the frame keeps its rows.
remove_peptides_with_stopcodon(frame, column, sc_index, sc_col) ==
    LET data == get_column(frame, column)
        rows == row_remove(column, sc_index, sc_col)
    IN  IF Len(rows) > 0 THEN drop(data, rows) ELSE data

\* zscore(x, mu, std) with mu = np.mean(null) and std = np.std(null).  The
\* square root is kept symbolic: the value is num / sqrt(var), which is
\* +-inf or nan when var = 0 and nan when the null is empty.
zscore(x_, null) ==
    LET mu == np_mean(null)
        sq == [i \in 1..Len(null) |-> RMul(RSub(null[i], mu), RSub(null[i], mu))]
    IN  [num |-> RSub(x_, mu), var |-> np_mean(sq)]

ZeroZscore == [num |-> Zero, var |-> One]

(***************************************************************************)
(* enrichment_auc is called by the drivers (figure_1b.py:79,               *)
(* suppl_table_5.py:41, figure_2b.py:37) but enrichment.py does not define *)
(* it.  It is modelled from the specification, section 4.4: the arithmetic *)
(* mean of all curve entries; on an empty curve it fails or returns a      *)
(* sentinel (see auc_empty).                                               *)
(***************************************************************************)
enrichment_auc(curve) == np_mean(curve)

(***************************************************************************)
(* suppl_table_5.py: get_all_scores.  on_empty is what enrichment_auc does *)
(* on an empty curve.  The result is [raised |-> "" or the exception,      *)
(* scores |-> the dict position -> acid -> score].                         *)
(***************************************************************************)
get_all_scores(frame, mode, on_empty) ==
    LET aa == aa_from_df(frame)
        col(position) == get_column(frame, position).values
        absent == \E j \in 1..Len(frame.columns) : \E k \in 1..Len(aa) :
                      value_count(col(frame.columns[j]), aa[k]) = 0
        any == Len(frame.columns) > 0 /\ Len(aa) > 0
        score(position, a) ==
            LET scores_ == enrichment_curves(col(position), a)
            IN  IF mode = "max" THEN enrichment_score(scores_)
                ELSE enrichment_auc(scores_)
    IN  IF any /\ mode \notin {"max", "auc"}
          THEN [raised |-> "NotImplementedError", scores |-> <<>>]
        ELSE IF absent /\ mode = "max"
          THEN [raised |-> "ValueError", scores |-> <<>>]
        ELSE IF absent /\ on_empty = "raise"
          THEN [raised |-> "Error", scores |-> <<>>]
        ELSE [raised |-> "",
              scores |-> [position \in Range(frame.columns) |->
                             [a \in Range(aa) |-> score(position, a)]]]

(***************************************************************************)
(* State.                                                                  *)
(***************************************************************************)
VARIABLES
    pc,            \* position of the running script or call
    df,            \* the ranked column handed to the enrichment functions
    acid,          \* the amino acid of interest
    mode,          \* 'auc' or 'max' (anything else is an invalid mode)
    curve_,        \* the observed enrichment curve
    score_obs,     \* the observed score (auc_obs in figure_1b.py)
    raised,        \* "" or the name of the exception that ended the call
    auc_empty,     \* what enrichment_auc does on an empty curve: "raise" | "nan"
    n_perm,        \* number of permutations
    curve,         \* enrichment_scores_null: the increment array being permuted
    x,             \* enrichment_scores_null: iterations of the loop done
    null_values,   \* enrichment_scores_null: the scores appended so far
    null_none,     \* enrichment_scores_null: null_values has been set to None
    perm_trace,    \* history: the permuted arrays, in the order they were drawn
    obs,           \* twosided_pvalue: the observed value passed in
    pvalue,        \* twosided_pvalue: the value returned
    pvalues,       \* fdr_correction: the position x acid matrix of p-values
    alpha,         \* fdr_correction: the false discovery rate
    pval_fdr,      \* fdr_correction: the significance mask returned
    data_df,       \* the table of the script: peptides x positions
    sc_index,      \* figure_1b.py: rows (1-based) of the stop codons
    sc_pos,        \* figure_1b.py: columns (1-based) of the stop codons
    pos,           \* the column label being queried
    df_index,      \* index labels of the filtered column df
    script,        \* "figure_1b" while that script runs, "call" for a single call
    a_idx,         \* figure_1b.py: index of the acid of the outer loop (1-based)
    p_idx,         \* figure_1b.py: index of the position of the inner loop
    out_dict,      \* figure_1b.py: the matrices auc, zscore, pval_raw, counts
    perm_aucs,     \* figure_1b.py: one line [aa, pos, auc_obs] + auc_null per cell
    enrichment_curves_list,  \* figure_1b.py: one line [aa, pos] + curve_ per cell
    calls,         \* history: the library calls made, as <<function, p_idx, a_idx>>
    variant,       \* suppl_table_5.py: "paper" or "paper_tables"
    original_scores,   \* suppl_table_5.py: scores of the whole table
    position1_idx, \* suppl_table_5.py: index into sorted(original_scores)
    acid1_idx,     \* suppl_table_5.py: index into sorted(original_scores[position1])
    interactions,  \* suppl_table_5.py: the records appended so far
    df_out,        \* suppl_table_5.py: the frame written out
    file,          \* data.load: the rows of the csv file, in file order
    positions,     \* data.load: the requested 0-based offsets
    load_idx       \* data.load: index into positions of the next offset

cellVars == <<df, acid, mode, curve_, score_obs, raised, auc_empty>>
nullVars == <<n_perm, curve, x, null_values, null_none, perm_trace>>
pvalVars == <<obs, pvalue>>

fdrVars == <<pvalues, alpha, pval_fdr>>

tableVars == <<data_df, sc_index, sc_pos, pos, df_index, script>>
drvVars == <<a_idx, p_idx, out_dict, perm_aucs, enrichment_curves_list, calls>>

loadVars == <<file, positions, load_idx>>

scanVars == <<variant, original_scores, position1_idx, acid1_idx, interactions, df_out,
              loadVars>>

vars == <<pc, cellVars, nullVars, pvalVars, fdrVars, tableVars, drvVars, scanVars>>

\* Ranked columns of length lo..hi
Columns(lo, hi) == UNION {[1..n -> Alphabet] : n \in lo..hi}

Modes == {"auc", "max"}

IdleCell ==
    /\ df = <<>> /\ acid = "A" /\ mode = "auc" /\ curve_ = <<>>
    /\ score_obs = NaN /\ raised = "" /\ auc_empty = "nan"

IdleNull ==
    /\ n_perm = 0 /\ curve = <<>> /\ x = 0 /\ null_values = <<>>
    /\ null_none = FALSE /\ perm_trace = <<>>

IdlePval == obs = NaN /\ pvalue = NaN

IdleFdr == pvalues = <<>> /\ alpha = NaN /\ pval_fdr = <<>>

EmptyFrame == [index |-> <<>>, columns |-> <<>>, values |-> <<>>]

IdleLoad == file = <<>> /\ positions = <<>> /\ load_idx = 1

IdleScan ==
    /\ variant = "paper" /\ original_scores = <<>> /\ position1_idx = 1
    /\ acid1_idx = 1 /\ interactions = <<>> /\ df_out = <<>>
    /\ IdleLoad

IdleDriver ==
    /\ a_idx = 1 /\ p_idx = 1 /\ out_dict = <<>> /\ perm_aucs = <<>>
    /\ enrichment_curves_list = <<>> /\ calls = <<>>
    /\ IdleScan

IdleTable ==
    /\ data_df = EmptyFrame /\ sc_index = <<>> /\ sc_pos = <<>>
    /\ pos = <<>> /\ df_index = <<>> /\ script = "call"
    /\ IdleDriver

(***************************************************************************)
(* The curve and the two reducers applied to drawn inputs.                 *)
(***************************************************************************)
InitCurve ==
    /\ pc = "input"
    /\ df \in Columns(0, MaxRows)
    /\ acid \in Alphabet
    /\ mode \in Modes
    /\ auc_empty \in {"raise", "nan"}
    /\ curve_ = <<>> /\ score_obs = NaN /\ raised = ""
    /\ IdleNull /\ IdlePval /\ IdleFdr /\ IdleTable

\* curve_ = enrichment.enrichment_curves(df=df, acid=aa)
CallEnrichmentCurves ==
    /\ pc = "input" /\ script = "call"
    /\ curve_' = enrichment_curves(df, acid)
    /\ pc' = "curve"
    /\ UNCHANGED <<df, acid, mode, score_obs, raised, auc_empty, nullVars, pvalVars, fdrVars, tableVars, drvVars, scanVars>>

\* enrichment.enrichment_score(curve_)
CallEnrichmentScore ==
    /\ pc = "curve" /\ script = "call" /\ mode = "max"
    /\ IF ScoreRaises(curve_)
         THEN raised' = "ValueError" /\ UNCHANGED score_obs
         ELSE score_obs' = enrichment_score(curve_) /\ UNCHANGED raised
    /\ pc' = "scored"
    /\ UNCHANGED <<df, acid, mode, curve_, auc_empty, nullVars, pvalVars, fdrVars, tableVars, drvVars, scanVars>>

\* enrichment.enrichment_auc(curve_)
CallEnrichmentAuc ==
    /\ pc = "curve" /\ script = "call" /\ mode = "auc"
    /\ IF Len(curve_) = 0 /\ auc_empty = "raise"
         THEN raised' = "Error" /\ UNCHANGED score_obs
         ELSE score_obs' = enrichment_auc(curve_) /\ UNCHANGED raised
    /\ pc' = "scored"
    /\ UNCHANGED <<df, acid, mode, curve_, auc_empty, nullVars, pvalVars, fdrVars, tableVars, drvVars, scanVars>>

NextCurve == CallEnrichmentCurves \/ CallEnrichmentScore \/ CallEnrichmentAuc

SpecCurve == InitCurve /\ [][NextCurve]_vars

(***************************************************************************)
(* enrichment_scores_null, one loop iteration per step, followed by        *)
(* twosided_pvalue on its result.                                          *)
(***************************************************************************)
\* Mutant: the permuted increments reduced without the cumulative sum.
null_tmp_mut(c) == c

\* tmp_ = np.cumsum(curve)
null_tmp(c) == cumsum(c)

\* The observed values handed to twosided_pvalue.
TestObs == {Zero, One, Frac(-1, 2), Frac(1, 3)}

InitNull ==
    /\ pc = "input"
    /\ df \in Columns(0, MaxNullRows)
    /\ acid \in Alphabet
    /\ mode \in Modes \cup {"invalid"}
    /\ n_perm \in 0..MaxPerm
    /\ curve_ = <<>> /\ score_obs = NaN /\ raised = "" /\ auc_empty = "nan"
    /\ curve = <<>> /\ x = 0 /\ null_values = <<>> /\ null_none = FALSE
    /\ perm_trace = <<>>
    /\ IdlePval /\ IdleFdr /\ IdleTable

\* Lines 109-132: the early return for an absent acid, else the increments.
NullEnter ==
    /\ pc = "input"
    /\ IF value_count(df, acid) = 0
         THEN /\ pc' = "null_done"
              /\ UNCHANGED curve
         ELSE /\ curve' = increments(df, acid)
              /\ pc' = "null_loop"
    /\ null_values' = <<>> /\ null_none' = FALSE /\ x' = 0
    /\ perm_trace' = <<>>
    /\ UNCHANGED <<cellVars, n_perm, pvalVars, fdrVars, tableVars, drvVars, scanVars>>

\* Lines 133-143: one iteration of the loop.
NullPermute ==
    /\ pc = "null_loop" /\ x < n_perm
    /\ \E c \in permutation(curve) :
         /\ curve' = c
         /\ perm_trace' = Append(perm_trace, c)
         /\ IF mode \in Modes
              THEN /\ null_values' = Append(null_values, null_reduce(null_tmp(c), mode))
                   /\ UNCHANGED null_none
              ELSE /\ null_values' = <<>>
                   /\ null_none' = TRUE
    /\ x' = x + 1
    /\ UNCHANGED <<pc, cellVars, n_perm, pvalVars, fdrVars, tableVars, drvVars, scanVars>>

\* Line 145: return null_values
NullReturn ==
    /\ pc = "null_loop" /\ x = n_perm
    /\ pc' = "null_done"
    /\ UNCHANGED <<cellVars, nullVars, pvalVars, fdrVars, tableVars, drvVars, scanVars>>

\* twosided_pvalue(obs, null) on the returned list; len(None) raises TypeError.
CallPvalue ==
    /\ pc = "null_done" /\ script = "call"
    /\ \E o \in TestObs \cup
               (IF value_count(df, acid) > 0 /\ mode \in Modes
                  THEN {null_reduce(enrichment_curves(df, acid), mode)} ELSE {}) :
         /\ obs' = o
         /\ IF null_none
              THEN raised' = "TypeError" /\ UNCHANGED pvalue
              ELSE pvalue' = twosided_pvalue(o, null_values) /\ UNCHANGED raised
    /\ pc' = "pvalue"
    /\ UNCHANGED <<df, acid, mode, curve_, score_obs, auc_empty, nullVars, fdrVars, tableVars, drvVars, scanVars>>

NextNull == NullEnter \/ NullPermute \/ NullReturn \/ CallPvalue

SpecNull == InitNull /\ [][NextNull]_vars

(***************************************************************************)
(* fdr_correction applied to drawn p-value matrices.                       *)
(***************************************************************************)
PValueInputs == {Frac(1, 100), Frac(3, 100), Frac(4, 100), Frac(1, 5)}

InitFdr ==
    /\ pc = "input"
    /\ \E n_rows \in 1..FdrRows, n_cols \in 1..FdrCols :
          pvalues \in [1..n_rows -> [1..n_cols -> PValueInputs]]
    /\ alpha \in {Frac(1, 10), Frac(1, 20)}
    /\ pval_fdr = <<>>
    /\ IdleCell /\ IdleNull /\ IdlePval /\ IdleTable

\* out_dict['pval_fdr'] = enrichment.fdr_correction(out_dict['pval_raw'], alpha)
CallFdrCorrection ==
    /\ pc = "input"
    /\ pval_fdr' = fdr_correction(pvalues, alpha)
    /\ pc' = "fdr_done"
    /\ UNCHANGED <<pvalues, alpha, cellVars, nullVars, pvalVars, tableVars, drvVars, scanVars>>

NextFdr == CallFdrCorrection

SpecFdr == InitFdr /\ [][NextFdr]_vars

(***************************************************************************)
(* The stop-codon filter applied to drawn tables: the stop codons are      *)
(* located as figure_1b.py does, then one column is queried.               *)
(***************************************************************************)
\* The table data.load returns for offsets 0..n_pos-1: the index holds the
\* ranks 1..n_rows, the cells outside `stops` alternate by row.
table_with_stops(n_rows, n_pos, stops) ==
    [index |-> [r \in 1..n_rows |-> r],
     columns |-> [c \in 1..n_pos |-> pos_label(c - 1)],
     values |-> [r \in 1..n_rows |-> [c \in 1..n_pos |->
                    IF <<r, c>> \in stops THEN "*"
                    ELSE IF r % 2 = 1 THEN "A" ELSE "B"]]]

FilterTables ==
    {table_with_stops(FilterRows, FilterPos, stops) :
        stops \in {S \in SUBSET ((1..FilterRows) \X (1..FilterPos)) :
                      Cardinality(S) <= MaxStops}}

InitFilter ==
    /\ pc = "loaded"
    /\ data_df \in FilterTables
    /\ sc_index = <<>> /\ sc_pos = <<>> /\ pos = <<>> /\ df_index = <<>>
    /\ script = "call"
    /\ IdleCell /\ IdleNull /\ IdlePval /\ IdleFdr /\ IdleDriver

\* figure_1b.py, lines 38-40
LocateStopCodons ==
    /\ pc = "loaded"
    /\ LET sc == stop_codons(data_df)
       IN  /\ sc_index' = [k \in 1..Len(sc) |-> sc[k][1]]
           /\ sc_pos' = [k \in 1..Len(sc) |-> sc[k][2]]
    /\ pc' = "located"
    /\ UNCHANGED <<data_df, pos, df_index, script, cellVars, nullVars, pvalVars,
                   fdrVars, drvVars, scanVars>>

\* df = enrichment.remove_peptides_with_stopcodon(data_df, pos, sc_index, sc_pos)
CallRemovePeptides ==
    /\ pc = "located" /\ script = "call"
    /\ \E c \in 1..Len(data_df.columns) :
         /\ pos' = data_df.columns[c]
         /\ IF DropRaises(get_column(data_df, data_df.columns[c]),
                          row_remove(data_df.columns[c], sc_index, sc_pos))
              THEN raised' = "KeyError" /\ UNCHANGED <<df, df_index>>
              ELSE LET res == remove_peptides_with_stopcodon(
                                  data_df, data_df.columns[c], sc_index, sc_pos)
                   IN  /\ df' = res.values
                       /\ df_index' = res.index
                       /\ UNCHANGED raised
    /\ pc' = "removed"
    /\ UNCHANGED <<data_df, sc_index, sc_pos, script, acid, mode, curve_, score_obs,
                   auc_empty, nullVars, pvalVars, fdrVars, drvVars, scanVars>>

NextFilter == LocateStopCodons \/ CallRemovePeptides

SpecFilter == InitFilter /\ [][NextFilter]_vars

(***************************************************************************)
(* figure_1b.py: main.  The table is what data.load returned; writing the  *)
(* result files (lines 108-131) changes nothing the model keeps.           *)
(***************************************************************************)
\* The cells of the driver's tables: one amino acid and the stop codon.
DriverAlphabet == {"A", "*"}

DriverTables ==
    {[index |-> [r \in 1..DriverRows |-> r],
      columns |-> [c \in 1..DriverPos |-> pos_label(c - 1)],
      values |-> v] :
        v \in [1..DriverRows -> [1..DriverPos -> DriverAlphabet]]}

\* np.zeros((len(positions), len(acids)))
zeros(n_pos, n_acids, zero) == [p \in 1..n_pos |-> [a \in 1..n_acids |-> zero]]

\* out_dict[metric][p, a] = value
set_cell(out, metric, p, a, value) ==
    [out EXCEPT ![metric] = [@ EXCEPT ![p] = [@ EXCEPT ![a] = value]]]

\* Mutant: the cell is never skipped.
cell_is_skipped_mut(n_occurrences) == FALSE

\* Lines 63-64: if n_occurrences == 0: continue
cell_is_skipped(n_occurrences) == n_occurrences = 0

\* The loop indices after the body of cell (a, p): positions are the inner loop.
next_a_idx(a, p, n_pos) == IF p = n_pos THEN a + 1 ELSE a
next_p_idx(a, p, n_pos) == IF p = n_pos THEN 1 ELSE p + 1

\* Lines 33-46, with the stop codons still to be located.
InitDriver ==
    /\ pc = "loaded"
    /\ script = "figure_1b"
    /\ data_df \in DriverTables
    /\ sc_index = <<>> /\ sc_pos = <<>> /\ pos = <<>> /\ df_index = <<>>
    /\ a_idx = 1 /\ p_idx = 1
    /\ LET n_pos == Len(data_df.columns)
           n_acids == Len(aa_from_df(data_df))
       IN  out_dict = [auc |-> zeros(n_pos, n_acids, Zero),
                       zscore |-> zeros(n_pos, n_acids, ZeroZscore),
                       pval_raw |-> zeros(n_pos, n_acids, Zero),
                       counts |-> zeros(n_pos, n_acids, 0)]
    /\ perm_aucs = <<>> /\ enrichment_curves_list = <<>> /\ calls = <<>>
    /\ df = <<>> /\ acid = "A" /\ mode = "auc" /\ curve_ = <<>>
    /\ score_obs = NaN /\ raised = "" /\ auc_empty \in {"raise", "nan"}
    /\ n_perm = DriverPerm /\ curve = <<>> /\ x = 0 /\ null_values = <<>>
    /\ null_none = FALSE /\ perm_trace = <<>>
    /\ IdlePval /\ IdleFdr /\ IdleScan

\* Lines 48-82: the body of one cell up to the call of enrichment_scores_null.
CellBegin ==
    /\ pc = "located" /\ script = "figure_1b"
    /\ a_idx <= Len(aa_from_df(data_df))
    /\ LET aa == aa_from_df(data_df)[a_idx]
           column == data_df.columns[p_idx]
           n_pos == Len(data_df.columns)
       IN
       /\ acid' = aa
       /\ pos' = column
       /\ IF DropRaises(get_column(data_df, column),
                        row_remove(column, sc_index, sc_pos))
            THEN /\ raised' = "KeyError"
                 /\ pc' = "error"
                 /\ UNCHANGED <<df, df_index, curve_, score_obs, drvVars>>
            ELSE
            LET res == remove_peptides_with_stopcodon(data_df, column, sc_index, sc_pos)
                n_occurrences == value_count(res.values, aa)
                counted == set_cell(out_dict, "counts", p_idx, a_idx, n_occurrences)
            IN
            /\ df' = res.values
            /\ df_index' = res.index
            /\ out_dict' = counted
            /\ UNCHANGED perm_aucs
            /\ IF cell_is_skipped(n_occurrences)
                 THEN /\ a_idx' = next_a_idx(a_idx, p_idx, n_pos)
                      /\ p_idx' = next_p_idx(a_idx, p_idx, n_pos)
                      /\ pc' = "located"
                      /\ UNCHANGED <<curve_, score_obs, raised,
                                     enrichment_curves_list, calls>>
                 ELSE /\ curve_' = enrichment_curves(res.values, aa)
                      /\ enrichment_curves_list' =
                            Append(enrichment_curves_list, <<aa, column, curve_'>>)
                      /\ IF Len(curve_') = 0 /\ auc_empty = "raise"
                           THEN /\ raised' = "Error" /\ pc' = "error"
                                /\ UNCHANGED score_obs
                           ELSE /\ score_obs' = enrichment_auc(curve_')
                                /\ pc' = "input"
                                /\ UNCHANGED raised
                      /\ calls' = calls \o <<<<"enrichment_curves", p_idx, a_idx>>,
                                             <<"enrichment_auc", p_idx, a_idx>>,
                                             <<"enrichment_scores_null", p_idx, a_idx>>>>
                      /\ UNCHANGED <<a_idx, p_idx>>
    /\ UNCHANGED <<mode, auc_empty, data_df, sc_index, sc_pos, script,
                   nullVars, pvalVars, fdrVars, scanVars>>

\* Lines 84-99: the rest of the body, once enrichment_scores_null has returned.
CellFinish ==
    /\ pc = "null_done" /\ script = "figure_1b"
    /\ LET auc_null == null_values
           auc_pvalue == twosided_pvalue(score_obs, auc_null)
           auc_zscore == zscore(score_obs, auc_null)
           n_pos == Len(data_df.columns)
       IN  /\ perm_aucs' = Append(perm_aucs, <<acid, pos, score_obs>> \o auc_null)
           /\ obs' = score_obs
           /\ pvalue' = auc_pvalue
           /\ out_dict' = set_cell(set_cell(set_cell(out_dict,
                               "auc", p_idx, a_idx, score_obs),
                               "zscore", p_idx, a_idx, auc_zscore),
                               "pval_raw", p_idx, a_idx, auc_pvalue)
           /\ calls' = calls \o <<<<"twosided_pvalue", p_idx, a_idx>>,
                                  <<"zscore", p_idx, a_idx>>>>
           /\ a_idx' = next_a_idx(a_idx, p_idx, n_pos)
           /\ p_idx' = next_p_idx(a_idx, p_idx, n_pos)
    /\ pc' = "located"
    /\ UNCHANGED <<cellVars, nullVars, fdrVars, tableVars, enrichment_curves_list,
                   scanVars>>

\* Lines 104-106: the one correction over the whole matrix, after the loops.
DriverFdr ==
    /\ pc = "located" /\ script = "figure_1b"
    /\ a_idx > Len(aa_from_df(data_df))
    /\ pvalues' = out_dict.pval_raw
    /\ alpha' = Frac(1, 10)
    /\ pval_fdr' = fdr_correction(out_dict.pval_raw, Frac(1, 10))
    /\ pc' = "done"
    /\ UNCHANGED <<cellVars, nullVars, pvalVars, tableVars, drvVars, scanVars>>

NextDriver ==
    \/ LocateStopCodons
    \/ CellBegin
    \/ NullEnter \/ NullPermute \/ NullReturn
    \/ CellFinish
    \/ DriverFdr

Spec == InitDriver /\ [][NextDriver]_vars

(***************************************************************************)
(* suppl_table_5.py: main, in its two variants (paper/ and paper_tables/). *)
(* The table is what data.load returned for positions=[4, 17, 18, 19].     *)
(***************************************************************************)
ScanOffsets == <<4, 17, 18, 19>>

ScanPos == Len(ScanOffsets)

ScanAlphabet == {"A", "B"}

ScanTables ==
    {[index |-> [r \in 1..ScanRows |-> r],
      columns |-> [c \in 1..ScanPos |-> pos_label(ScanOffsets[c])],
      values |-> v] :
        v \in [1..ScanRows -> [1..ScanPos -> ScanAlphabet]]}

InitScan ==
    /\ pc = "loaded"
    /\ script = "suppl_table_5"
    /\ variant \in {"paper", "paper_tables"}
    /\ data_df \in ScanTables
    /\ mode \in Modes
    /\ auc_empty \in {"raise", "nan"}
    /\ (mode = "max") => (auc_empty = "raise")
    /\ original_scores = <<>> /\ position1_idx = 1 /\ acid1_idx = 1
    /\ interactions = <<>> /\ df_out = <<>> /\ IdleLoad
    /\ sc_index = <<>> /\ sc_pos = <<>> /\ pos = <<>> /\ df_index = <<>>
    /\ a_idx = 1 /\ p_idx = 1 /\ out_dict = <<>> /\ perm_aucs = <<>>
    /\ enrichment_curves_list = <<>> /\ calls = <<>>
    /\ df = <<>> /\ acid = "A" /\ curve_ = <<>> /\ score_obs = NaN /\ raised = ""
    /\ IdleNull /\ IdlePval /\ IdleFdr

\* original_scores = get_all_scores(df, mode=mode)
ScanOriginal ==
    /\ pc = "loaded" /\ script = "suppl_table_5"
    /\ LET got == get_all_scores(data_df, mode, auc_empty)
       IN  IF got.raised # ""
             THEN raised' = got.raised /\ pc' = "error" /\ UNCHANGED original_scores
             ELSE original_scores' = got.scores /\ pc' = "scan" /\ UNCHANGED raised
    /\ UNCHANGED <<df, acid, mode, curve_, score_obs, auc_empty, nullVars, pvalVars,
                   fdrVars, tableVars, drvVars, variant, position1_idx, acid1_idx,
                   interactions, df_out, loadVars>>

\* The record appended for (position1, acid1, position2, acid2).
interaction(v, position1, acid1, position2, acid2, score1, score2, original2) ==
    IF v = "paper"
      THEN [AA1 |-> acid2, Position_1 |-> position2, AUC_AA1 |-> original2,
            AA2 |-> acid1, Position_2 |-> position1,
            AUC_AA1_given_AA2 |-> score2, Delta_AUC |-> RSub(score2, original2)]
      ELSE [acid1 |-> acid1, pos1 |-> position1, score1 |-> score1,
            acid2 |-> acid2, pos2 |-> position2, score2 |-> score2,
            delta |-> RSub(score2, original2)]

\* The records of the two inner loops, in the order they are appended.
records_for(v, original, filtered, position1, acid1) ==
    LET positions2 == sorted_keys(DOMAIN filtered)
        acids2(position2) == sorted_acids(DOMAIN filtered[position2])
        RECURSIVE row(_, _), rows(_)
        row(position2, k) ==
            IF k > Len(acids2(position2)) THEN <<>>
            ELSE <<interaction(v, position1, acid1, position2, acids2(position2)[k],
                               original[position1][acid1],
                               filtered[position2][acids2(position2)[k]],
                               original[position2][acids2(position2)[k]])>>
                 \o row(position2, k + 1)
        rows(j) == IF j > Len(positions2) THEN <<>>
                   ELSE row(positions2[j], 1) \o rows(j + 1)
    IN  rows(1)

\* original_scores[position2][acid2] raises KeyError for a missing key.
LookupRaises(original, filtered) ==
    \E position2 \in DOMAIN filtered :
        \E acid2 \in DOMAIN filtered[position2] :
            position2 \notin DOMAIN original \/ acid2 \notin DOMAIN original[position2]

\* One iteration of the loop over (position1, acid1): lines 75-106.
ScanCondition ==
    /\ pc = "scan" /\ script = "suppl_table_5"
    /\ position1_idx <= Len(sorted_keys(DOMAIN original_scores))
    /\ LET position1 == sorted_keys(DOMAIN original_scores)[position1_idx]
           acids1 == sorted_acids(DOMAIN original_scores[position1])
           acid1 == acids1[acid1_idx]
           df_filtered == drop_column(filter_rows(data_df, position1, acid1), position1)
           got == get_all_scores(df_filtered, mode, auc_empty)
       IN  IF got.raised # ""
             THEN /\ raised' = got.raised /\ pc' = "error"
                  /\ UNCHANGED <<interactions, position1_idx, acid1_idx>>
           ELSE IF LookupRaises(original_scores, got.scores)
             THEN /\ raised' = "KeyError" /\ pc' = "error"
                  /\ UNCHANGED <<interactions, position1_idx, acid1_idx>>
           ELSE /\ interactions' = interactions \o
                       records_for(variant, original_scores, got.scores, position1, acid1)
                /\ IF acid1_idx = Len(acids1)
                     THEN position1_idx' = position1_idx + 1 /\ acid1_idx' = 1
                     ELSE acid1_idx' = acid1_idx + 1 /\ UNCHANGED position1_idx
                /\ UNCHANGED <<raised, pc>>
    /\ UNCHANGED <<df, acid, mode, curve_, score_obs, auc_empty, nullVars, pvalVars,
                   fdrVars, tableVars, drvVars, variant, original_scores, df_out,
                   loadVars>>

\* df_out.sort_values(by='Delta AUC', ascending=False): by delta descending,
\* nan last; equal deltas keep their order in a list this short.
delta_of(r) == IF "Delta_AUC" \in DOMAIN r THEN r.Delta_AUC ELSE r.delta

RECURSIVE insert_by_delta(_, _)
insert_by_delta(sorted, r) ==
    IF Len(sorted) = 0 THEN <<r>>
    ELSE LET last == sorted[Len(sorted)]
         IN  IF delta_of(r) = NaN \/ RLeq(delta_of(r), delta_of(last))
               THEN Append(sorted, r)
             ELSE Append(insert_by_delta(SubSeq(sorted, 1, Len(sorted) - 1), r), last)

RECURSIVE sort_values(_)
sort_values(rows) ==
    IF Len(rows) = 0 THEN <<>>
    ELSE insert_by_delta(sort_values(SubSeq(rows, 1, Len(rows) - 1)), rows[Len(rows)])

\* Lines 108-114: the frame written out, sorted by delta in paper/ only.
ScanWrite ==
    /\ pc = "scan" /\ script = "suppl_table_5"
    /\ position1_idx > Len(sorted_keys(DOMAIN original_scores))
    /\ df_out' = IF variant = "paper" THEN sort_values(interactions) ELSE interactions
    /\ pc' = "done"
    /\ UNCHANGED <<cellVars, nullVars, pvalVars, fdrVars, tableVars, drvVars,
                   variant, original_scores, position1_idx, acid1_idx, interactions,
                   loadVars>>

NextScan == ScanOriginal \/ ScanCondition \/ ScanWrite

SpecScan == InitScan /\ [][NextScan]_vars

(***************************************************************************)
(* data.py: load.  The csv file has the columns rank (the index), ID,      *)
(* Sequence and shrunken.log2.fold.change; a peptide has SeqLen residues.  *)
(***************************************************************************)
SeqLen == 23

ID_label == <<"I", "D">>

Sequence_label == <<"S", "e", "q", "u", "e", "n", "c", "e">>

FoldChange_label == <<"s", "h", "r", "u", "n", "k", "e", "n", ".", "l", "o", "g", "2",
                      ".", "f", "o", "l", "d", ".", "c", "h", "a", "n", "g", "e">>

\* Peptides whose neighbouring residues differ.
Peptides ==
    {[i \in 1..SeqLen |-> <<"A", "B", "*">>[((i + k) % 3) + 1]] : k \in 0..2}

LoadFiles ==
    {[r \in 1..LoadRows |-> [rank |-> r, ID |-> r, Sequence |-> seqs[r], lfc |-> 0 - r]] :
        seqs \in [1..LoadRows -> Peptides]}

\* range(23), the list suppl_table_5.py passes, and every single offset.
PositionLists ==
    {[i \in 1..SeqLen |-> i - 1], ScanOffsets} \cup {<<p>> : p \in 0..(SeqLen - 1)}

\* pd.read_csv(file, index_col=0)
read_csv(rows) ==
    [index |-> [r \in 1..Len(rows) |-> rows[r].rank],
     columns |-> <<ID_label, Sequence_label, FoldChange_label>>,
     values |-> [r \in 1..Len(rows) |-> <<rows[r].ID, rows[r].Sequence, rows[r].lfc>>]]

\* df[label] = cells: the column is replaced if it exists, appended if not.
set_column(frame, label, cells) ==
    IF \E j \in 1..Len(frame.columns) : frame.columns[j] = label
      THEN LET c == CHOOSE j \in 1..Len(frame.columns) : frame.columns[j] = label
           IN  [frame EXCEPT !.values =
                   [r \in 1..Len(frame.index) |-> [frame.values[r] EXCEPT ![c] = cells[r]]]]
      ELSE [frame EXCEPT !.columns = Append(@, label),
                         !.values = [r \in 1..Len(frame.index) |->
                                        Append(frame.values[r], cells[r])]]

InitLoad ==
    /\ pc = "call_load"
    /\ script = "load"
    /\ file \in LoadFiles
    /\ positions \in PositionLists
    /\ load_idx = 1
    /\ data_df = EmptyFrame
    /\ sc_index = <<>> /\ sc_pos = <<>> /\ pos = <<>> /\ df_index = <<>>
    /\ variant = "paper" /\ original_scores = <<>> /\ position1_idx = 1
    /\ acid1_idx = 1 /\ interactions = <<>> /\ df_out = <<>>
    /\ a_idx = 1 /\ p_idx = 1 /\ out_dict = <<>> /\ perm_aucs = <<>>
    /\ enrichment_curves_list = <<>> /\ calls = <<>>
    /\ IdleCell /\ IdleNull /\ IdlePval /\ IdleFdr

\* Line 21.
LoadReadCsv ==
    /\ pc = "call_load" /\ script = "load"
    /\ data_df' = read_csv(file)
    /\ pc' = "columns"
    /\ UNCHANGED <<cellVars, nullVars, pvalVars, fdrVars, sc_index, sc_pos, pos,
                   df_index, script, drvVars, scanVars>>

\* Lines 24-29: one iteration of the loop over positions.
LoadColumn ==
    /\ pc = "columns" /\ script = "load"
    /\ load_idx <= Len(positions)
    /\ LET p == positions[load_idx]
           sequences == get_column(data_df, Sequence_label).values
       IN  IF \E r \in 1..Len(sequences) : p >= Len(sequences[r])
             THEN /\ raised' = "IndexError" /\ pc' = "error"
                  /\ UNCHANGED <<data_df, load_idx>>
             ELSE /\ data_df' = set_column(data_df, pos_label(p),
                                     [r \in 1..Len(sequences) |-> sequences[r][p + 1]])
                  /\ load_idx' = load_idx + 1
                  /\ UNCHANGED <<raised, pc>>
    /\ UNCHANGED <<df, acid, mode, curve_, score_obs, auc_empty, nullVars, pvalVars,
                   fdrVars, sc_index, sc_pos, pos, df_index, script, drvVars,
                   variant, original_scores, position1_idx, acid1_idx, interactions,
                   df_out, file, positions>>

\* Lines 31-35.
LoadReturn ==
    /\ pc = "columns" /\ script = "load"
    /\ load_idx > Len(positions)
    /\ data_df' = drop_column(drop_column(drop_column(data_df, Sequence_label),
                                          FoldChange_label), ID_label)
    /\ pc' = "returned"
    /\ UNCHANGED <<cellVars, nullVars, pvalVars, fdrVars, sc_index, sc_pos, pos,
                   df_index, script, drvVars, scanVars>>

NextLoad == LoadReadCsv \/ LoadColumn \/ LoadReturn

SpecLoad == InitLoad /\ [][NextLoad]_vars

(***************************************************************************)
(* The absent-acid paths together: a run of figure_1b.py, or a single call *)
(* of enrichment_curves or enrichment_scores_null on a drawn column.       *)
(***************************************************************************)
InitAbsent == InitDriver \/ InitCurve \/ InitNull

NextAbsent == NextDriver \/ NextCurve \/ NextNull

SpecAbsent == InitAbsent /\ [][NextAbsent]_vars

(***************************************************************************)
(* Properties of the curve and the reducers (SpecCurve).                   *)
(***************************************************************************)
\* Matching rows among the first i rows of the column.
HitsUpTo(i) == Cardinality({j \in 1..i : df[j] = acid})

\* The curve's i-th entry in closed form: hits/m - misses/(n-m).
ClosedForm(i, n, m) ==
    LET h == HitsUpTo(i)
    IN  RSub(Frac(h, m), IF i = h THEN Zero ELSE Frac(i - h, n - m))

CurveIsCumulativeSum ==
    LET n == Len(df)
        m == HitsUpTo(Len(df))
    IN  /\ Len(curve_) = n
        /\ \A i \in 1..n : curve_[i] = ClosedForm(i, n, m)

\* C1 as stated: for n >= 1 and 1 <= m <= n the curve has length n, its i-th
\* entry is the cumulative sum of +1/m and -1/(n-m) in row order, and its
\* final entry is 0.
C1_FinalEntryZero ==
    (pc # "input" /\ HitsUpTo(Len(df)) >= 1) =>
        /\ CurveIsCumulativeSum
        /\ curve_[Len(df)] = Zero

\* C1 as amended: for n >= 1 and 1 <= m <= n the curve has length n and its
\* i-th entry is the cumulative sum of +1/m (row matches) and -1/(n-m) (row
\* does not match) in row order; its final entry is 0 when m < n and 1 when
\* m = n (every row matches, so there is no negative increment).
C1_CurveContract ==
    (pc # "input" /\ HitsUpTo(Len(df)) >= 1) =>
        /\ CurveIsCumulativeSum
        /\ curve_[Len(df)] = (IF HitsUpTo(Len(df)) < Len(df) THEN Zero ELSE One)

C1_Witness ==
    /\ pc = "curve" /\ Len(df) = 5 /\ HitsUpTo(5) = 2
    /\ df[1] # acid /\ df[5] = acid
    /\ curve_[5] = Zero /\ curve_[1] = Frac(-1, 3)

ExampleColumn == <<"A", "A", "B", "B", "B">>

\* C9: on a non-empty curve the 'max' reducer returns the entry of largest
\* absolute value, sign kept, and the 'auc' reducer the arithmetic mean of
\* the entries; for [A,A,B,B,B] and target A the curve is
\* [1/2, 1, 2/3, 1/3, 0], the 'max' score 1 (index 1) and the 'auc' score 1/2.
C9_Reducers ==
    (pc = "scored" /\ raised = "" /\ Len(curve_) > 0) =>
        /\ mode = "max" =>
             /\ \E i \in 1..Len(curve_) : score_obs = curve_[i]
             /\ \A i \in 1..Len(curve_) :
                   Abs(curve_[i][1]) * score_obs[2] <= Abs(score_obs[1]) * curve_[i][2]
        /\ mode = "auc" =>
             /\ score_obs[2] > 0
             /\ RSum(curve_) = Frac(score_obs[1] * Len(curve_), score_obs[2])
        /\ (df = ExampleColumn /\ acid = "A") =>
             /\ curve_ = <<Frac(1, 2), One, Frac(2, 3), Frac(1, 3), Zero>>
             /\ mode = "max" => score_obs = One /\ score_obs = curve_[2]
             /\ mode = "auc" => score_obs = Frac(1, 2)

C9_Witness ==
    /\ pc = "scored" /\ raised = "" /\ mode = "max"
    /\ Len(curve_) = 4 /\ score_obs = Frac(-2, 3)
    /\ \E i \in 1..4 : curve_[i] = Frac(1, 3)

(***************************************************************************)
(* Properties of the permutation null and the p-value (SpecNull).          *)
(***************************************************************************)
\* C4: twosided_pvalue is 1.0 on an empty null and otherwise the number of
\* null entries x with |x| >= |obs| over len(null); it lies in [0, 1].
C4_Pvalue ==
    (pc = "pvalue" /\ raised = "") =>
        LET k == Len(null_values)
            cnt == Cardinality({i \in 1..k :
                      Abs(null_values[i][1]) * obs[2] >= Abs(obs[1]) * null_values[i][2]})
        IN  /\ k = 0 => pvalue = One
            /\ k > 0 => pvalue[2] > 0 /\ pvalue[1] * k = cnt * pvalue[2]
            /\ 0 <= pvalue[1] /\ pvalue[1] <= pvalue[2]

C4_Witness ==
    /\ pc = "pvalue" /\ raised = "" /\ Len(null_values) = 2
    /\ obs = Frac(-1, 2) /\ pvalue = Frac(1, 2)

\* The sum of the first i entries.
PrefixSum(arr, i) == RSum(SubSeq(arr, 1, i))

\* arr holds m entries +1/m and n-m entries -1/(n-m), and nothing else.
IsObservedMultiset(arr, n, m) ==
    /\ Len(arr) = n
    /\ Cardinality({i \in 1..n : arr[i] = <<1, m>>}) = m
    /\ Cardinality({i \in 1..n : n # m /\ arr[i] = <<-1, n - m>>}) = n - m

\* s is what the reducer of `mode` gives on the cumulative sum of arr.
IsReduced(s, arr) ==
    LET n == Len(arr)
    IN  IF mode = "auc"
          THEN s[2] > 0 /\ RSum([i \in 1..n |-> PrefixSum(arr, i)]) = Frac(s[1] * n, s[2])
          ELSE /\ \E i \in 1..n : s = PrefixSum(arr, i)
               /\ \A i \in 1..n : RLeq(RAbs(PrefixSum(arr, i)), RAbs(s))

\* C8: with m > 0 and a valid mode, enrichment_scores_null returns exactly
\* n_perm scores in permutation order; the k-th score is the selected reducer
\* on the cumulative sum of the k-th permuted array, and every permuted array
\* has the multiset of the observed increments (m times +1/m, n-m times
\* -1/(n-m)).
C8_NullScores ==
    (pc # "input" /\ value_count(df, acid) > 0 /\ mode \in Modes) =>
        LET n == Len(df)
            m == Cardinality({i \in 1..Len(df) : df[i] = acid})
        IN  /\ ~null_none
            /\ Len(null_values) = x /\ Len(perm_trace) = x /\ x <= n_perm
            /\ pc \in {"null_done", "pvalue"} => Len(null_values) = n_perm
            /\ IsObservedMultiset(curve, n, m)
            /\ \A k \in 1..x :
                  /\ IsObservedMultiset(perm_trace[k], n, m)
                  /\ IsReduced(null_values[k], perm_trace[k])

C8_Witness ==
    /\ pc = "null_done" /\ value_count(df, acid) = 1 /\ Len(df) = 3
    /\ mode = "max" /\ n_perm = 2 /\ Len(null_values) = 2
    /\ null_values[1] = Frac(-1, 1) /\ null_values[2] = One

(***************************************************************************)
(* Properties of the FDR correction (SpecFdr).                             *)
(***************************************************************************)
\* Cells of the matrix in row-major order, as <<row, column>>.
CellsBefore(r, c, n_cols) ==
    {rc \in (1..Len(pvalues)) \X (1..n_cols) :
        rc[1] < r \/ (rc[1] = r /\ rc[2] < c)}

\* Ascending-sort rank of cell (r, c): cells with a smaller p-value, plus the
\* cells of equal p-value that come earlier in row-major order, plus one.
SortRank(r, c) ==
    LET n_cols == Len(pvalues[1])
        p == pvalues[r][c]
    IN  1 + Cardinality({rc \in (1..Len(pvalues)) \X (1..n_cols) :
                            RLt(pvalues[rc[1]][rc[2]], p)})
          + Cardinality({rc \in CellsBefore(r, c, n_cols) :
                            pvalues[rc[1]][rc[2]] = p})

ExamplePvalues == <<<<Frac(1, 100), Frac(4, 100)>>, <<Frac(3, 100), Frac(1, 5)>>>>

\* C3: over a matrix of N cells, the p-value of ascending-sort rank r gets the
\* threshold alpha*r/N and its cell is significant iff the p-value is <= that
\* threshold (nothing is carried over from other ranks); the mask has the
\* matrix's shape and cell order.  [0.01, 0.04, 0.03, 0.20] with alpha = 0.1
\* gives [True, True, True, False].
C3_FdrMask ==
    (pc = "fdr_done") =>
        LET n_rows == Len(pvalues)
            n_cols == Len(pvalues[1])
            N == n_rows * n_cols
        IN  /\ Len(pval_fdr) = n_rows
            /\ \A r \in 1..n_rows :
                  /\ Len(pval_fdr[r]) = n_cols
                  /\ \A c \in 1..n_cols :
                        pval_fdr[r][c] =
                          (pvalues[r][c][1] * alpha[2] * N
                             <= alpha[1] * SortRank(r, c) * pvalues[r][c][2])
            /\ (pvalues = ExamplePvalues /\ alpha = Frac(1, 10)) =>
                  pval_fdr = <<<<TRUE, TRUE>>, <<TRUE, FALSE>>>>

\* A mask the step-up procedure would not give: a cell of rank 1 that is not
\* significant beside a cell of higher rank that is.
C3_Witness ==
    /\ pc = "fdr_done" /\ Len(pvalues) = 2 /\ Len(pvalues[1]) = 2
    /\ alpha = Frac(1, 10)
    /\ pvalues[2][1] = Frac(3, 100) /\ pval_fdr[2][1] = FALSE
    /\ pvalues[1][2] = Frac(4, 100) /\ pval_fdr[1][2] = TRUE

(***************************************************************************)
(* Properties of the stop-codon filter (SpecFilter).                       *)
(***************************************************************************)
\* The number t of the queried position: the c with columns[c] = pos.
QueriedNumber == CHOOSE c \in 1..Len(data_df.columns) : data_df.columns[c] = pos

\* Row r has a stop codon at a position before t.
StopBefore(r, t) == \E c \in 1..(t - 1) : data_df.values[r][c] = "*"

\* C2: for target position t the filter returns the target column restricted
\* to exactly the rows with no stop codon at a position < t, in the input
\* order; a stop at row 3, position 5 keeps row 3 for position 5 and removes
\* it for position 6.
C2_StopCodonFilter ==
    (pc = "removed") =>
        LET t == QueriedNumber
            n == Len(df_index)
        IN  /\ raised = ""
            /\ Range(df_index) = {r \in 1..Len(data_df.index) : ~StopBefore(r, t)}
            /\ \A i \in 1..n : \A j \in 1..n : i < j => df_index[i] < df_index[j]
            /\ Len(df) = n
            /\ \A i \in 1..n : df[i] = data_df.values[df_index[i]][t]
            /\ (data_df.values[3][5] = "*" /\ ~StopBefore(3, 5)) =>
                  /\ t = 5 => 3 \in Range(df_index)
                  /\ t = 6 => 3 \notin Range(df_index)

C2_Witness ==
    /\ pc = "removed" /\ QueriedNumber = 6
    /\ data_df.values[3][5] = "*" /\ data_df.values[1][6] = "*"
    /\ df_index = <<1, 2>> /\ df = <<"*", "B">>

(***************************************************************************)
(* Properties of the absent-acid paths (SpecAbsent).                       *)
(***************************************************************************)
\* Rows of the table that hold acid number a at position number p and have no
\* stop codon before p: the count of the cell in the filtered column.
FilteredCount(p, a) ==
    Cardinality({r \in 1..Len(data_df.index) :
                    /\ data_df.values[r][p] = aa_from_df(data_df)[a]
                    /\ ~StopBefore(r, p)})

\* Cell (p, a) has been through the loop body.
Processed(p, a) ==
    /\ pc # "loaded"
    /\ a < a_idx \/ (a = a_idx /\ p < p_idx)

NoTraceOf(p, a) ==
    /\ \A k \in 1..Len(calls) : ~(calls[k][2] = p /\ calls[k][3] = a)
    /\ \A k \in 1..Len(perm_aucs) :
          ~(perm_aucs[k][1] = aa_from_df(data_df)[a]
            /\ perm_aucs[k][2] = data_df.columns[p])
    /\ \A k \in 1..Len(enrichment_curves_list) :
          ~(enrichment_curves_list[k][1] = aa_from_df(data_df)[a]
            /\ enrichment_curves_list[k][2] = data_df.columns[p])

\* C5: when the target acid does not occur in the filtered column,
\* enrichment_curves and enrichment_scores_null return the empty result
\* without raising; the driver records counts = 0 for the cell, calls no
\* reducer, null generation, p-value or z-score for it, and goes on with the
\* next cell (at the end every cell holds its count).
C5_AbsentAcid ==
    /\ script = "figure_1b" =>
         /\ pc # "error" /\ raised = ""
         /\ \A p \in 1..Len(data_df.columns) :
              \A a \in 1..Len(aa_from_df(data_df)) :
                 /\ (Processed(p, a) /\ FilteredCount(p, a) = 0) =>
                       /\ out_dict.counts[p][a] = 0
                       /\ out_dict.auc[p][a] = Zero
                       /\ out_dict.pval_raw[p][a] = Zero
                       /\ out_dict.zscore[p][a] = ZeroZscore
                       /\ NoTraceOf(p, a)
                 /\ (Processed(p, a) /\ FilteredCount(p, a) > 0) =>
                       \E k \in 1..Len(calls) : calls[k] = <<"twosided_pvalue", p, a>>
                 /\ pc = "done" => out_dict.counts[p][a] = FilteredCount(p, a)
    /\ (script = "call" /\ \A i \in 1..Len(df) : df[i] # acid) =>
         /\ pc = "curve" => curve_ = <<>> /\ raised = ""
         /\ pc = "null_done" =>
               null_values = <<>> /\ ~null_none /\ x = 0 /\ raised = ""

\* A finished run with a cell whose acid occurs at the position only in rows
\* the stop-codon filter removed, and with cells that were scored.
C5_Witness ==
    /\ script = "figure_1b" /\ pc = "done" /\ Len(calls) > 0
    /\ \E p \in 1..Len(data_df.columns) :
         \E a \in 1..Len(aa_from_df(data_df)) :
            /\ FilteredCount(p, a) = 0
            /\ \E r \in 1..Len(data_df.index) :
                  data_df.values[r][p] = aa_from_df(data_df)[a]
            /\ out_dict.counts[p][a] = 0
            /\ \E p2 \in 1..Len(data_df.columns) :
                  \E a2 \in (a + 1)..Len(aa_from_df(data_df)) :
                     out_dict.counts[p2][a2] > 0

\* C12: after a complete per-cell run and the one global FDR correction, no
\* cell skipped for a count of 0 is marked significant: every cell the mask
\* marks has count > 0 and a p-value computed from its own permutation null.
C12_SkippedNotSignificant ==
    (script = "figure_1b" /\ pc = "done") =>
        \A p \in 1..Len(data_df.columns) :
           \A a \in 1..Len(aa_from_df(data_df)) :
              pval_fdr[p][a] =>
                 /\ out_dict.counts[p][a] > 0
                 /\ \E k \in 1..Len(calls) : calls[k] = <<"twosided_pvalue", p, a>>

(***************************************************************************)
(* Properties of the pairwise conditional scan (SpecScan).                 *)
(***************************************************************************)
\* The fields of a record, under the names of the loop variables.
rec_position1(r) == IF variant = "paper" THEN r.Position_2 ELSE r.pos1

rec_acid1(r) == IF variant = "paper" THEN r.AA2 ELSE r.acid1

rec_position2(r) == IF variant = "paper" THEN r.Position_1 ELSE r.pos2

rec_acid2(r) == IF variant = "paper" THEN r.AA1 ELSE r.acid2

rec_conditioned(r) == IF variant = "paper" THEN r.AUC_AA1_given_AA2 ELSE r.score2

\* The one unconditioned score a record carries.
rec_original(r) == IF variant = "paper" THEN r.AUC_AA1 ELSE r.score1

\* The conditioning pairs, in loop order, and those whose iteration is over.
ConditioningPairs ==
    LET positions1 == sorted_keys(DOMAIN original_scores)
    IN  {<<j, k>> \in (1..Len(positions1)) \X (1..Cardinality(ScanAlphabet)) :
            k <= Len(sorted_acids(DOMAIN original_scores[positions1[j]]))}

IterationOver(j, k) ==
    j < position1_idx \/ (j = position1_idx /\ k < acid1_idx)

\* C6: for every conditioning pair (position1 = P, acid1 = A) no record has
\* position2 = P: each record, appended or written out, names a position2 that
\* differs from its position1, and its position1 is a conditioning position
\* the loop has reached.
C6_ConditionedColumnDropped ==
    (script = "suppl_table_5") =>
        LET positions1 == sorted_keys(DOMAIN original_scores)
            reached == {positions1[j] : j \in {j \in 1..Len(positions1) : j <= position1_idx}}
        IN  /\ \A i \in 1..Len(interactions) :
                  /\ rec_position2(interactions[i]) # rec_position1(interactions[i])
                  /\ rec_position1(interactions[i]) \in reached
            /\ \A i \in 1..Len(df_out) :
                  rec_position2(df_out[i]) # rec_position1(df_out[i])

\* A scan of either variant that ran to its end and wrote records for both
\* conditioning positions.
C6_Witness ==
    /\ script = "suppl_table_5" /\ pc = "done" /\ Len(df_out) >= 4
    /\ \E i, k \in 1..Len(df_out) :
          /\ rec_position1(df_out[i]) = pos_label(ScanOffsets[1])
          /\ rec_position2(df_out[i]) = pos_label(ScanOffsets[2])
          /\ rec_position1(df_out[k]) = pos_label(ScanOffsets[2])
          /\ rec_position2(df_out[k]) = pos_label(ScanOffsets[1])

\* The rows of the table with acid1 at position1.
RowsWith(position1, acid1) ==
    {r \in 1..Len(data_df.index) : get_column(data_df, position1).values[r] = acid1}

\* The (position2, acid2) pairs of the frame filtered on (position1, acid1):
\* the other positions, and the acids that occur in the kept rows there.
RemainingPairs(position1, acid1) ==
    {<<position2, acid2>> \in (Range(data_df.columns) \ {position1}) \X ScanAlphabet :
        \E r \in RowsWith(position1, acid1) :
            \E position \in Range(data_df.columns) \ {position1} :
                get_column(data_df, position).values[r] = acid2}

\* The score of acid2 at position2 among the rows with acid1 at position1.
ConditionedScore(position1, acid1, position2, acid2) ==
    LET column == get_column(data_df, position2).values
        kept(r) == r \in RowsWith(position1, acid1)
        rows == SelectSeq([r \in 1..Len(column) |-> r], kept)
        scores_ == enrichment_curves([i \in 1..Len(rows) |-> column[rows[i]]], acid2)
    IN  IF Len(scores_) = 0 THEN NaN
        ELSE IF mode = "max" THEN enrichment_score(scores_)
        ELSE enrichment_auc(scores_)

\* C7: for every conditioning pair (position1, acid1) whose iteration is over
\* and every remaining (position2, acid2) of the filtered frame exactly one
\* record was appended; it carries the conditioned score, the original score
\* of that same (position2, acid2) and delta = conditioned - original; the
\* lookup of the original score never fails.
C7_RecordPerPair ==
    (script = "suppl_table_5" /\ pc \in {"scan", "done", "error"}) =>
        /\ raised # "KeyError"
        /\ \A jk \in ConditioningPairs :
              IterationOver(jk[1], jk[2]) =>
                 LET position1 == sorted_keys(DOMAIN original_scores)[jk[1]]
                     acid1 == sorted_acids(DOMAIN original_scores[position1])[jk[2]]
                 IN  \A pa \in RemainingPairs(position1, acid1) :
                        LET hits == {i \in 1..Len(interactions) :
                                        /\ rec_position1(interactions[i]) = position1
                                        /\ rec_acid1(interactions[i]) = acid1
                                        /\ rec_position2(interactions[i]) = pa[1]
                                        /\ rec_acid2(interactions[i]) = pa[2]}
                        IN  /\ Cardinality(hits) = 1
                            /\ \A i \in hits :
                                  LET r == interactions[i]
                                      original == original_scores[pa[1]][pa[2]]
                                  IN  /\ rec_conditioned(r)
                                           = ConditionedScore(position1, acid1, pa[1], pa[2])
                                      /\ rec_original(r) = original
                                      /\ delta_of(r) = RSub(rec_conditioned(r), original)

\* C11: in 'auc' and in 'max' mode, when an acid of the frame's alphabet does
\* not occur at some position (of the whole frame or of a filtered frame), or
\* the conditioning filter leaves no rows, the scan does not abort: no call
\* of get_all_scores raises, and the loop goes on to the next pair.
C11_ScanNeverAborts ==
    (script = "suppl_table_5") => (pc # "error" /\ raised = "")

(***************************************************************************)
(* Properties of data.load (SpecLoad).                                     *)
(***************************************************************************)
\* k written with exactly two digits.
TwoDigits(k) == <<DigitChars[(k \div 10) + 1], DigitChars[(k % 10) + 1]>>

\* C10: load makes, for every requested offset p in 0..22, exactly one column
\* labelled 'Pos' + (p+1 in exactly two digits), whose cell for each peptide
\* is the residue of its sequence at offset p, and keeps the file's row order.
C10_LoadColumns ==
    (script = "load" /\ pc = "returned") =>
        /\ data_df.index = [r \in 1..Len(file) |-> file[r].rank]
        /\ \A i \in 1..Len(positions) :
              LET p == positions[i]
                  label == <<"P", "o", "s">> \o TwoDigits(p + 1)
                  made == {j \in 1..Len(data_df.columns) : data_df.columns[j] = label}
              IN  /\ Cardinality(made) = 1
                  /\ \A j \in made : \A r \in 1..Len(file) :
                        data_df.values[r][j] = file[r].Sequence[p + 1]

=============================================================================
